---- MODULE Spec2Model ----
(***************************************************************************)
(* Swipe recording, mutual-match detection and conversation gatekeeping of *)
(* the dating app's Convex backend (convex/mutations/matching.ts and       *)
(* convex/mutations/messages.ts), over the tables of convex/schema.ts.     *)
(*                                                                         *)
(* Spec       : every mutation runs as one atomic call (calls in sequence).*)
(* SpecConc   : recordSwipe calls run concurrently, one database operation *)
(*              (one await) per step, interleaved in any order.            *)
(* SpecRead   : Spec with the queries getMatchById and                     *)
(*              getConversationMessages.                                   *)
(* SpecFeed   : getDiscoveryFeed (convex/queries/discovery.ts) as a live   *)
(*              query beside recordSwipe.                                  *)
(* SpecFilter : getDiscoveryFeed over users tables that vary the age, the  *)
(*              distance, the gender preference and the scan order.        *)
(* SpecPage   : getDiscoveryFeed with every limit and offset.              *)
(* SpecChat   : a matched pair sending messages while the clock advances, *)
(*              with getConversationMessages at every limit and before.    *)
(* SpecMark   : unmatchUsers, markMessageAsRead and markConversationAsRead *)
(*              called by any user.                                        *)
(* SpecSql    : inserts into the matches table of the SQL schema.          *)
(* SpecHook   : useDiscoveryFeed loading the feed page by page while the   *)
(*              user swipes.                                               *)
(* SpecAuth   : createUser and verifyUser (convex/mutations/auth.ts).      *)
(* SpecSub    : createSubscription, cancelSubscription, expireSubscription *)
(*              (convex/mutations/subscriptions.ts).                       *)
(***************************************************************************)
EXTENDS Integers, Sequences, FiniteSets, TLC

\* ---- bounds of the model ----
NumUsers == 3
MaxSwipes == 2
MaxMessages == 1
NumCalls == 2
NumPageUsers == 6
MaxLimit == 5
MaxOffset == 5
MaxConversation == 3
MaxTicks == 2
MaxMatchRows == 3

Users == 1..NumUsers
SwipeActions == {"like", "pass"}
Pairs == Users \X Users
Null == 0

VARIABLES
  swipes,         \* table swipes, seen through index by_pair: key -> rows
  matches,        \* table matches, in insertion order; _id is the position
  messages,       \* table messages, in insertion order; _id is the position
  notifications,  \* table notifications, in insertion order
  last,           \* the last completed atomic call and what it returned
  calls,          \* the recordSwipe calls in flight (SpecConc)
  users,          \* table users, in the order a full scan yields the rows
  now,            \* Date.now(), in days since 1970-01-01
  feed,           \* the client's getDiscoveryFeed subscription and its result
  subscriptions   \* table subscriptions, in insertion order; _id is the position

vars == <<swipes, matches, messages, notifications, last, calls, users, now, feed,
          subscriptions>>

\* ---- the tables ----

\* Rows of swipes whose (swiper_id, swiped_id) equals the key, oldest first.
by_pair(sw, swiper_id, swiped_id) == sw[<<swiper_id, swiped_id>>]

SwipeRows(sw) == UNION {{<<p, i>> : i \in 1..Len(sw[p])} : p \in DOMAIN sw}
SwipeCount(sw) == Cardinality(SwipeRows(sw))

\* db.get(match_id): the document, or null when there is none.
HasMatch(ms, match_id) == match_id \in 1..Len(ms)

\* The _ids of the matches whose participant set is {a, b}.
MatchesOfPair(ms, a, b) ==
  {i \in 1..Len(ms) : {ms[i].user1_id, ms[i].user2_id} = {a, b}}

IsLike(action) == action = "like"

\* ---- recordSwipe, one database operation at a time ----

\* variant: the existence check finds nothing
existingSwipeQuery_None(sw, swiper_id, swiped_id) == <<>>

\* const existingSwipe = db.query("swipes").withIndex("by_pair", ...)
existingSwipeQuery(sw, swiper_id, swiped_id) == by_pair(sw, swiper_id, swiped_id)

\* db.insert("swipes", {swiper_id, swiped_id, action, created_at})
insertSwipe(sw, swiper_id, swiped_id, action) ==
  [sw EXCEPT ![<<swiper_id, swiped_id>>] = Append(@, action)]

\* the _id of the row insertSwipe adds
newSwipeId(sw, swiper_id, swiped_id) ==
  <<swiper_id, swiped_id, Len(by_pair(sw, swiper_id, swiped_id)) + 1>>

\* variant: the lookup is not reversed
reverseSwipeQuery_OwnPair(sw, swiper_id, swiped_id) ==
  SelectSeq(by_pair(sw, swiper_id, swiped_id), IsLike)

\* variant: the lookup does not filter on action = "like"
reverseSwipeQuery_AnyAction(sw, swiper_id, swiped_id) ==
  by_pair(sw, swiped_id, swiper_id)

\* const reverseSwipe = db.query("swipes").withIndex("by_pair", swiped, swiper)
\*                        .filter(action = "like")
reverseSwipeQuery(sw, swiper_id, swiped_id) ==
  SelectSeq(by_pair(sw, swiped_id, swiper_id), IsLike)

\* variant: the match is stored inactive
insertMatch_Inactive(ms, swiper_id, swiped_id) ==
  Append(ms, [user1_id |-> swiper_id, user2_id |-> swiped_id, is_active |-> FALSE])

\* db.insert("matches", {user1_id: swiper_id, user2_id: swiped_id, is_active: true})
insertMatch(ms, swiper_id, swiped_id) ==
  Append(ms, [user1_id |-> swiper_id, user2_id |-> swiped_id, is_active |-> TRUE])

\* what a recordSwipe call hands back: a return value or a thrown error
SwipeRet(status, swipe_id, is_match, match_id) ==
  [status |-> status, swipe_id |-> swipe_id, is_match |-> is_match, match_id |-> match_id]

SwipeThrow(status) == SwipeRet(status, <<>>, FALSE, Null)

\* .unique() throws when more than one document matches
UniqueStatus(rows) == IF Len(rows) > 1 THEN "NotUnique" ELSE "ok"

\* ---- recordSwipe as one atomic mutation ----
\* The result: the tables after the call and what the call hands back.  A
\* throw leaves the tables as they were.
recordSwipeHandler(sw, ms, swiper_id, swiped_id, action) ==
  LET existingSwipe == existingSwipeQuery(sw, swiper_id, swiped_id)
      sw1 == insertSwipe(sw, swiper_id, swiped_id, action)
      swipeId == newSwipeId(sw, swiper_id, swiped_id)
      reverseSwipe == reverseSwipeQuery(sw1, swiper_id, swiped_id)
      unchanged(status) == [swipes |-> sw, matches |-> ms, ret |-> SwipeThrow(status)]
  IN  IF UniqueStatus(existingSwipe) # "ok" THEN unchanged("NotUnique")
      ELSE IF Len(existingSwipe) > 0 THEN unchanged("Conflict")
      ELSE IF action # "like"
        THEN [swipes |-> sw1, matches |-> ms, ret |-> SwipeRet("ok", swipeId, FALSE, Null)]
      ELSE IF UniqueStatus(reverseSwipe) # "ok" THEN unchanged("NotUnique")
      ELSE IF Len(reverseSwipe) > 0
        THEN [swipes |-> sw1,
              matches |-> insertMatch(ms, swiper_id, swiped_id),
              ret |-> SwipeRet("ok", swipeId, TRUE, Len(ms) + 1)]
      ELSE [swipes |-> sw1, matches |-> ms, ret |-> SwipeRet("ok", swipeId, FALSE, Null)]

\* ---- unmatchUsers ----
\* variant: the match row is deleted
unmatchUsersHandler_Delete(ms, match_id) ==
  SubSeq(ms, 1, match_id - 1) \o SubSeq(ms, match_id + 1, Len(ms))

\* db.patch(match_id, {is_active: false})
unmatchUsersHandler(ms, match_id) == [ms EXCEPT ![match_id].is_active = FALSE]

\* ---- sendMessage ----
\* variant: every user counts as a participant
isParticipant_Anyone(match, user_id) == TRUE

\* currentUser._id is user1_id or user2_id of the match
isParticipant(match, user_id) == match.user1_id = user_id \/ match.user2_id = user_id

recipientOf(match, sender_id) ==
  IF match.user1_id = sender_id THEN match.user2_id ELSE match.user1_id

\* the insert of sendMessage: the message and the recipient's notification
sendMessageInsert(ms, msgs, notifs, match_id, sender_id) ==
  [messages |-> Append(msgs, [match_id |-> match_id, sender_id |-> sender_id,
                              is_read |-> FALSE, sent_at |-> now]),
   notifications |-> Append(notifs, [user_id |-> recipientOf(ms[match_id], sender_id),
                                     type |-> "new_message",
                                     related_id |-> Len(msgs) + 1,
                                     is_read |-> FALSE]),
   ret |-> [status |-> "ok", message_id |-> Len(msgs) + 1]]

sendMessageThrow(msgs, notifs, status) ==
  [messages |-> msgs, notifications |-> notifs,
   ret |-> [status |-> status, message_id |-> Null]]

\* variant: no check of match.is_active
sendMessageHandler_NoActiveCheck(ms, msgs, notifs, match_id, sender_id) ==
  IF ~HasMatch(ms, match_id) THEN sendMessageThrow(msgs, notifs, "Unauthorized")
  ELSE IF ~isParticipant(ms[match_id], sender_id)
    THEN sendMessageThrow(msgs, notifs, "Unauthorized")
  ELSE sendMessageInsert(ms, msgs, notifs, match_id, sender_id)

\* variant: no check that the sender is user1 or user2 of the match
sendMessageHandler_NoParticipantCheck(ms, msgs, notifs, match_id, sender_id) ==
  IF ~HasMatch(ms, match_id) THEN sendMessageThrow(msgs, notifs, "Unauthorized")
  ELSE IF ~ms[match_id].is_active THEN sendMessageThrow(msgs, notifs, "InactiveMatch")
  ELSE sendMessageInsert(ms, msgs, notifs, match_id, sender_id)

sendMessageHandler(ms, msgs, notifs, match_id, sender_id) ==
  IF ~HasMatch(ms, match_id) THEN sendMessageThrow(msgs, notifs, "Unauthorized")
  ELSE IF ~isParticipant(ms[match_id], sender_id)
    THEN sendMessageThrow(msgs, notifs, "Unauthorized")
  ELSE IF ~ms[match_id].is_active THEN sendMessageThrow(msgs, notifs, "InactiveMatch")
  ELSE sendMessageInsert(ms, msgs, notifs, match_id, sender_id)

\* ---- dates: new Date(timestamp), in whole days and UTC ----
Undefined == -1            \* a v.optional number that is not set
UndefinedString == "undefined"

\* the day number (days since 1970-01-01) of the civil date y-m-d
DaysFromCivil(y, m, d) ==
  LET yy == IF m <= 2 THEN y - 1 ELSE y
      era == yy \div 400
      yoe == yy - era * 400
      mp == IF m > 2 THEN m - 3 ELSE m + 9
      doy == (153 * mp + 2) \div 5 + d - 1
      doe == yoe * 365 + yoe \div 4 - yoe \div 100 + doy
  IN  era * 146097 + doe - 719468

\* getFullYear(), getMonth() + 1 and getDate() of the day number z
CivilFromDays(z) ==
  LET zz == z + 719468
      era == zz \div 146097
      doe == zz - era * 146097
      yoe == (doe - doe \div 1460 + doe \div 36524 - doe \div 146096) \div 365
      doy == doe - (365 * yoe + yoe \div 4 - yoe \div 100)
      mp == (5 * doy + 2) \div 153
      d == doy - (153 * mp + 2) \div 5 + 1
      m == IF mp < 10 THEN mp + 3 ELSE mp - 9
      y == yoe + era * 400 + (IF m <= 2 THEN 1 ELSE 0)
  IN  [year |-> y, month |-> m, date |-> d]

Today == DaysFromCivil(2026, 6, 15)

\* function calculateAge(birthDateTimestamp), with today = new Date(today)
calculateAge(birthDateTimestamp, today) ==
  LET b == CivilFromDays(birthDateTimestamp)
      t == CivilFromDays(today)
      age == t.year - b.year
      monthDiff == t.month - b.month
  IN  IF monthDiff < 0 \/ (monthDiff = 0 /\ t.date < b.date) THEN age - 1 ELSE age

\* ---- markMessageAsRead, markConversationAsRead ----
\* db.patch(message_id, {is_read: true})
markMessageAsReadHandler(msgs, message_id) == [msgs EXCEPT ![message_id].is_read = TRUE]

\* match.user1_id === user_id ? match.user2_id : match.user1_id
otherUserId(match, user_id) ==
  IF match.user1_id = user_id THEN match.user2_id ELSE match.user1_id

\* the messages table after markConversationAsRead({match_id, user_id})
markConversationAsReadHandler(ms, msgs, match_id, user_id) ==
  IF ~HasMatch(ms, match_id) THEN msgs
  ELSE [i \in 1..Len(msgs) |->
          IF /\ msgs[i].match_id = match_id
             /\ msgs[i].is_read = FALSE
             /\ msgs[i].sender_id = otherUserId(ms[match_id], user_id)
            THEN [msgs[i] EXCEPT !.is_read = TRUE]
            ELSE msgs[i]]

\* ---- getMatchById, getConversationMessages ----
DefaultMessageLimit == 50

\* Array.prototype.reverse
Reverse(rows) == [i \in 1..Len(rows) |-> rows[Len(rows) + 1 - i]]

\* query.take(n)
Take(rows, n) == SubSeq(rows, 1, IF n < Len(rows) THEN n ELSE Len(rows))

QueryRet(status, rows) == [status |-> status, rows |-> rows]

\* getMatchById({match_id}) called by user_id; a user_id of Null is a caller
\* without a row in users (currentUser?._id is undefined).  rows is <<>> for
\* null and for a throw.
getMatchByIdHandler(ms, match_id, user_id) ==
  IF ~HasMatch(ms, match_id) THEN QueryRet("ok", <<>>)
  ELSE IF ~isParticipant(ms[match_id], user_id) THEN QueryRet("Unauthorized", <<>>)
  ELSE QueryRet("ok", <<[match_id |-> match_id] @@ ms[match_id]>>)

\* the rows of messages with their _id, in creation order
messagesWithId(msgs) == [i \in 1..Len(msgs) |-> [message_id |-> i] @@ msgs[i]]

\* getConversationMessages({match_id, limit, before}) called by user_id
getConversationMessagesHandler(ms, msgs, match_id, user_id, limit, before) ==
  IF ~HasMatch(ms, match_id) \/ ~isParticipant(ms[match_id], user_id)
    THEN QueryRet("Unauthorized", <<>>)
    ELSE LET byMatch == SelectSeq(messagesWithId(msgs), LAMBDA m : m.match_id = match_id)
             messageQuery == IF before # Undefined /\ before # 0
                               THEN SelectSeq(byMatch, LAMBDA m : m.sent_at < before)
                               ELSE byMatch
             page == Reverse(Take(Reverse(messageQuery), limit))
         IN  QueryRet("ok", [i \in 1..Len(page) |->
                               [message_id |-> page[i].message_id,
                                sender_id |-> page[i].sender_id,
                                sent_at |-> page[i].sent_at,
                                is_read |-> page[i].is_read]])

\* ---- getDiscoveryFeed ----
DefaultLimit == 20
DefaultMaxDistance == 50
DefaultAgeMin == 18
DefaultAgeMax == 100
DaysPerYear == 365         \* a year of the age window: 365 * 24 * 60 * 60 * 1000 ms

\* value ?? default
OrDefault(value, default) == IF value = Undefined THEN default ELSE value
OrDefaultString(value, default) == IF value = UndefinedString THEN default ELSE value

\* String.prototype.toLowerCase, on the strings the tables hold
toLowerCase(str) ==
  CASE str \in {"male", "Male", "MALE"} -> "male"
    [] str \in {"female", "Female", "FEMALE"} -> "female"
    [] str \in {"men", "Men", "MEN"} -> "men"
    [] str \in {"women", "Women", "WOMEN"} -> "women"
    [] str \in {"everyone", "Everyone"} -> "everyone"
    [] OTHER -> str

\* function calculateDistance(loc1, loc2): the haversine distance.  The
\* locations of the model lie on one meridian, where that distance is the
\* difference of the two positions; a location is its position on the
\* meridian and distances are counted in hundredths of a km.
PerKm == 100
calculateDistance(loc1, loc2) == IF loc1 >= loc2 THEN loc1 - loc2 ELSE loc2 - loc1

\* Math.round(distance * 10) / 10, in tenths of a km
roundToTenths(distance) == (distance + 5) \div 10

\* the row of the signed-in user, or <<>> when the table has none
currentUserQuery(us, user_id) == SelectSeq(us, LAMBDA u : u._id = user_id)

\* variant: only the location is required
hasCompleteProfile_LocationOnly(user) == user.location # Undefined

\* !(!currentUser.location || !currentUser.birth_date)
hasCompleteProfile(user) ==
  /\ user.location # Undefined
  /\ user.birth_date # Undefined
  /\ user.birth_date # 0

\* q.gt(birth_date, minBirthDate) and q.lt(birth_date, maxBirthDate); a row
\* without birth_date passes neither comparison
inAgeWindow(birth_date, today, ageMin, ageMax) ==
  /\ birth_date # Undefined
  /\ birth_date > today - ageMax * DaysPerYear
  /\ birth_date < today - ageMin * DaysPerYear

\* variant: the distance bound is exclusive
withinDistance_Exclusive(distance, maxDistance) == distance < maxDistance

\* variant: no distance bound
withinDistance_Always(distance, maxDistance) == TRUE

\* !(distance > maxDistance)
withinDistance(distance, maxDistance) == ~(distance > maxDistance)

\* variant: the gender is compared as stored
passesShowPreference_CaseSensitive(showMe, gender) ==
  IF showMe # "everyone"
    THEN /\ ~(toLowerCase(showMe) = "men" /\ gender # "male")
         /\ ~(toLowerCase(showMe) = "women" /\ gender # "female")
    ELSE TRUE

\* the show preference check of the filter callback
passesShowPreference(showMe, gender) ==
  IF showMe # "everyone"
    THEN LET userGender == toLowerCase(gender)
             showPreference == toLowerCase(showMe)
         IN  /\ ~(showPreference = "men" /\ userGender # "male")
             /\ ~(showPreference = "women" /\ userGender # "female")
    ELSE TRUE

\* Array.prototype.sort((a, b) => a.distance - b.distance): stable, so rows
\* of equal distance keep the order they had
RECURSIVE insertByDistance(_, _)
insertByDistance(sorted, row) ==
  IF sorted = <<>> THEN <<row>>
  ELSE IF sorted[Len(sorted)].distance <= row.distance THEN Append(sorted, row)
  ELSE Append(insertByDistance(SubSeq(sorted, 1, Len(sorted) - 1), row), sorted[Len(sorted)])

RECURSIVE sortByDistance(_)
sortByDistance(rows) ==
  IF rows = <<>> THEN <<>>
  ELSE insertByDistance(sortByDistance(SubSeq(rows, 1, Len(rows) - 1)), rows[Len(rows)])

\* variant: swipes are looked up by swiped_id
swipedIds_BySwiped(sw, user_id) ==
  {p[1] : p \in {q \in DOMAIN sw : q[2] = user_id /\ Len(sw[q]) > 0}}

\* new Set(swipes.map(s => s.swiped_id)), swipes read through index by_swiper
swipedIds(sw, user_id) ==
  {p[2] : p \in {q \in DOMAIN sw : q[1] = user_id /\ Len(sw[q]) > 0}}

\* variant: the offset is ignored
slice_IgnoreOffset(rows, offset, limit) ==
  SubSeq(rows, 1, IF limit < Len(rows) THEN limit ELSE Len(rows))

\* variant: the page ends at limit, not at offset + limit
slice_EndAtLimit(rows, offset, limit) ==
  SubSeq(rows, offset + 1, IF limit < Len(rows) THEN limit ELSE Len(rows))

\* rows.slice(offset, offset + limit), for offset >= 0 and limit >= 0
slice(rows, offset, limit) ==
  SubSeq(rows, offset + 1, IF offset + limit < Len(rows) THEN offset + limit ELSE Len(rows))

\* the users that pass every filter, closest first, with their distance
unswipedUsers(us, sw, currentUser, today) ==
  LET maxDistance == OrDefault(currentUser.max_distance, DefaultMaxDistance)
      ageMin == OrDefault(currentUser.age_min, DefaultAgeMin)
      ageMax == OrDefault(currentUser.age_max, DefaultAgeMax)
      showMe == OrDefaultString(currentUser.show_me, "everyone")
      potentialUsers ==
        SelectSeq(us, LAMBDA u : /\ inAgeWindow(u.birth_date, today, ageMin, ageMax)
                                 /\ u._id # currentUser._id
                                 /\ u.location # Undefined)
      filteredUsers ==
        SelectSeq(potentialUsers,
                  LAMBDA u : /\ withinDistance(calculateDistance(currentUser.location,
                                                                 u.location),
                                                maxDistance * PerKm)
                             /\ passesShowPreference(showMe, u.gender))
      withDistance ==
        [i \in 1..Len(filteredUsers) |->
           [user |-> filteredUsers[i],
            distance |-> calculateDistance(currentUser.location, filteredUsers[i].location)]]
      swiped == swipedIds(sw, currentUser._id)
  IN  SelectSeq(sortByDistance(withDistance), LAMBDA r : r.user._id \notin swiped)

\* the entry of the page for one row
feedEntry(row, today) ==
  [user_id |-> row.user._id,
   age |-> IF row.user.birth_date # 0 THEN calculateAge(row.user.birth_date, today)
           ELSE Null,
   distance_km |-> roundToTenths(row.distance)]

\* the handler: what getDiscoveryFeed({limit, offset}) returns to user_id
getDiscoveryFeedHandler(us, sw, user_id, limit, offset, today) ==
  LET found == currentUserQuery(us, user_id)
      currentUser == found[1]
      rows == slice(unswipedUsers(us, sw, currentUser, today), offset, limit)
  IN  IF found = <<>> THEN [status |-> "UserNotFound", page |-> <<>>]
      ELSE IF ~hasCompleteProfile(currentUser) THEN [status |-> "ok", page |-> <<>>]
      ELSE [status |-> "ok",
            page |-> [i \in 1..Len(rows) |-> feedEntry(rows[i], today)]]

\* ---- the state machine ----
IdleCall == [pc |-> "idle"]
NoFeed == [op |-> "none"]

Init ==
  /\ swipes = [p \in Pairs |-> <<>>]
  /\ matches = <<>>
  /\ messages = <<>>
  /\ notifications = <<>>
  /\ last = [op |-> "none"]
  /\ calls = [c \in 1..NumCalls |-> IdleCall]
  /\ users = <<>>
  /\ now = Today
  /\ feed = NoFeed
  /\ subscriptions = <<>>

recordSwipe(swiper_id, swiped_id, action) ==
  LET r == recordSwipeHandler(swipes, matches, swiper_id, swiped_id, action)
  IN  /\ SwipeCount(r.swipes) <= MaxSwipes
      /\ swipes' = r.swipes
      /\ matches' = r.matches
      /\ last' = [op |-> "recordSwipe", swiper_id |-> swiper_id, swiped_id |-> swiped_id,
                  action |-> action, ret |-> r.ret]
      /\ UNCHANGED <<messages, notifications, calls, users, now, feed, subscriptions>>

unmatchUsers(match_id) ==
  /\ HasMatch(matches, match_id)
  /\ matches' = unmatchUsersHandler(matches, match_id)
  /\ last' = [op |-> "unmatchUsers", match_id |-> match_id]
  /\ UNCHANGED <<swipes, messages, notifications, calls, users, now, feed, subscriptions>>

sendMessage(match_id, sender_id) ==
  LET r == sendMessageHandler(matches, messages, notifications, match_id, sender_id)
  IN  /\ Len(r.messages) <= MaxMessages
      /\ messages' = r.messages
      /\ notifications' = r.notifications
      /\ last' = [op |-> "sendMessage", match_id |-> match_id, sender_id |-> sender_id,
                  ret |-> r.ret]
      /\ UNCHANGED <<swipes, matches, calls, users, now, feed, subscriptions>>

Next ==
  \/ \E a \in Users, b \in Users, x \in SwipeActions : recordSwipe(a, b, x)
  \/ \E m \in 1..Len(matches) : unmatchUsers(m)
  \/ \E m \in 1..(Len(matches) + 1), u \in Users : sendMessage(m, u)

Spec == Init /\ [][Next]_vars

\* ---- the mutations together with the queries on matches and messages ----
Requesters == Users \cup {Null}
MessageLimits == {1, DefaultMessageLimit}
BeforeValues == {Undefined, Today, Today + 1}

getMatchById(match_id, user_id) ==
  /\ last' = [op |-> "getMatchById", match_id |-> match_id, user_id |-> user_id,
              ret |-> getMatchByIdHandler(matches, match_id, user_id)]
  /\ UNCHANGED <<swipes, matches, messages, notifications, calls, users, now, feed, subscriptions>>

getConversationMessages(match_id, user_id, limit, before) ==
  /\ last' = [op |-> "getConversationMessages", match_id |-> match_id,
              user_id |-> user_id, limit |-> limit, before |-> before,
              ret |-> getConversationMessagesHandler(matches, messages, match_id, user_id,
                                                     limit, before)]
  /\ UNCHANGED <<swipes, matches, messages, notifications, calls, users, now, feed, subscriptions>>

NextRead ==
  \/ \E a \in Users, b \in Users, x \in SwipeActions : recordSwipe(a, b, x)
  \/ \E m \in 1..Len(matches) : unmatchUsers(m)
  \/ \E m \in 1..(Len(matches) + 1), u \in Users : sendMessage(m, u)
  \/ \E m \in 1..(Len(matches) + 1), u \in Requesters : getMatchById(m, u)
  \/ \E m \in 1..(Len(matches) + 1), u \in Requesters, l \in MessageLimits,
        b \in BeforeValues : getConversationMessages(m, u, l, b)

SpecRead == Init /\ [][NextRead]_vars

\* ---- the discovery feed of a signed-in client while users swipe ----
\* a row of users
UserRow(id, birth_date, gender, location, max_distance, age_min, age_max, show_me) ==
  [_id |-> id, birth_date |-> birth_date, gender |-> gender, location |-> location,
   max_distance |-> max_distance, age_min |-> age_min, age_max |-> age_max,
   show_me |-> show_me]

\* a user after createInitialProfile and a location update: the preferences
\* are the ones createInitialProfile writes; user id stands 10 km from the next
BornAged30 == DaysFromCivil(1996, 1, 10)
LocationOf(id) == id * 10 * PerKm
ProfiledUser(id) ==
  UserRow(id, BornAged30, "female", LocationOf(id),
          DefaultMaxDistance, DefaultAgeMin, DefaultAgeMax, "everyone")

\* a user who has not sent a location yet
UserWithoutLocation(id) == [ProfiledUser(id) EXCEPT !.location = Undefined]

\* a user after createUser and a location update only: no profile field is set
UserWithoutBirthDate(id) ==
  UserRow(id, Undefined, UndefinedString, LocationOf(id),
          Undefined, Undefined, Undefined, UndefinedString)

\* the users tables of this specification, in order of creation: everyone
\* has a profile and a location, or one user lacks the location or the profile
FeedTables ==
  {[i \in Users |-> ProfiledUser(i)]}
    \cup {[i \in Users |-> IF i = j THEN UserWithoutLocation(i) ELSE ProfiledUser(i)] :
            j \in Users}
    \cup {[i \in Users |-> IF i = j THEN UserWithoutBirthDate(i) ELSE ProfiledUser(i)] :
            j \in Users}

InitFeed ==
  /\ swipes = [p \in Pairs |-> <<>>]
  /\ matches = <<>>
  /\ messages = <<>>
  /\ notifications = <<>>
  /\ last = [op |-> "none"]
  /\ calls = [c \in 1..NumCalls |-> IdleCall]
  /\ users \in FeedTables
  /\ now = Today
  /\ feed = NoFeed
  /\ subscriptions = <<>>

\* what useQuery(getDiscoveryFeed, {limit, offset}) holds for user_id
FeedResult(us, sw, user_id, limit, offset, today) ==
  [op |-> "getDiscoveryFeed", user_id |-> user_id, limit |-> limit, offset |-> offset,
   ret |-> getDiscoveryFeedHandler(us, sw, user_id, limit, offset, today)]

\* the client of user_id opens the discovery tab: useDiscoveryFeed() subscribes
\* with the default limit and offset 0
openDiscoveryFeed(user_id) ==
  /\ feed' = FeedResult(users, swipes, user_id, DefaultLimit, 0, now)
  /\ UNCHANGED <<swipes, matches, messages, notifications, last, calls, users, now, subscriptions>>

\* recordSwipe; the subscribed query is run again on the changed tables (the
\* value returned to the swiping client is not recorded here)
recordSwipeLive(swiper_id, swiped_id, action) ==
  LET r == recordSwipeHandler(swipes, matches, swiper_id, swiped_id, action)
  IN  /\ SwipeCount(r.swipes) <= MaxSwipes
      /\ swipes' = r.swipes
      /\ matches' = r.matches
      /\ feed' = IF feed = NoFeed THEN NoFeed
                 ELSE FeedResult(users, r.swipes, feed.user_id, feed.limit, feed.offset, now)
      /\ UNCHANGED <<messages, notifications, last, calls, users, now, subscriptions>>

NextFeed ==
  \/ \E u \in Users : openDiscoveryFeed(u)
  \/ \E a \in Users, b \in Users, x \in SwipeActions : recordSwipeLive(a, b, x)

SpecFeed == InitFeed /\ [][NextFeed]_vars

\* ---- getDiscoveryFeed over users of many ages, places and genders ----
\* user 1 asks with its own preferences; the others are the candidates
Candidates == Users \ {1}

RequesterRow(max_distance, age_min, age_max, show_me) ==
  UserRow(1, BornAged30, "female", LocationOf(1), max_distance, age_min, age_max, show_me)

\* birth dates around the bounds 18, 25 and 35 of the age ranges, on 2026-06-15
BirthDates ==
  {DaysFromCivil(2008, 6, 18),    \* 17, turns 18 in three days
   DaysFromCivil(2001, 6, 25),    \* 24, turns 25 in ten days
   DaysFromCivil(2001, 6, 18),    \* 24, turns 25 in three days
   DaysFromCivil(2001, 6, 15),    \* 25 today
   DaysFromCivil(1996, 1, 10),    \* 30
   DaysFromCivil(1991, 6, 14),    \* 35 since yesterday
   DaysFromCivil(1990, 6, 10)}    \* 36
AgeRanges == {<<Undefined, Undefined>>, <<25, 35>>}

AgeTables ==
  {[i \in Users |-> IF i = 1 THEN RequesterRow(Undefined, r[1], r[2], UndefinedString)
                    ELSE [ProfiledUser(i) EXCEPT !.birth_date = b[i]]] :
     b \in [Candidates -> BirthDates], r \in AgeRanges}

\* places 10, 50, 50.04 and 60 km from user 1, and no place
CandidateLocations ==
  {LocationOf(1) + 10 * PerKm, LocationOf(1) + 50 * PerKm, LocationOf(1) + 50 * PerKm + 4,
   LocationOf(1) + 60 * PerKm, Undefined}
MaxDistances == {Undefined, 10, 50}

DistanceTables ==
  {[i \in Users |-> IF i = 1 THEN RequesterRow(d, Undefined, Undefined, UndefinedString)
                    ELSE [ProfiledUser(i) EXCEPT !.location = l[i]]] :
     l \in [Candidates -> CandidateLocations], d \in MaxDistances}

Genders == {"male", "female", "Male", "FEMALE", "non-binary", UndefinedString}
ShowMeValues == {UndefinedString, "everyone", "men", "women", "Men", "WOMEN"}

GenderTables ==
  {[i \in Users |-> IF i = 1 THEN RequesterRow(Undefined, Undefined, Undefined, sm)
                    ELSE [ProfiledUser(i) EXCEPT !.gender = g[i]]] :
     g \in [Candidates -> Genders], sm \in ShowMeValues}

\* the users created in any order (a Convex _id does not follow the order of
\* creation), each candidate 10 or 20 km from user 1
TiedLocations == {LocationOf(1) + 10 * PerKm, LocationOf(1) + 20 * PerKm}

OrderTables ==
  {[k \in Users |-> IF o[k] = 1 THEN ProfiledUser(1)
                    ELSE [ProfiledUser(o[k]) EXCEPT !.location = l[o[k]]]] :
     o \in Permutations(Users), l \in [Candidates -> TiedLocations]}

InitFilter ==
  /\ swipes = [p \in Pairs |-> <<>>]
  /\ matches = <<>>
  /\ messages = <<>>
  /\ notifications = <<>>
  /\ last = [op |-> "none"]
  /\ calls = [c \in 1..NumCalls |-> IdleCall]
  /\ users \in AgeTables \cup DistanceTables \cup GenderTables \cup OrderTables
  /\ now = Today
  /\ feed = NoFeed
  /\ subscriptions = <<>>

NextFilter == \E u \in Users : openDiscoveryFeed(u)

SpecFilter == InitFilter /\ [][NextFilter]_vars

\* ---- getDiscoveryFeed page by page over an unchanged store ----
PageUsers == 1..NumPageUsers
PageRequester == 1

\* a user with a profile; the higher the id, the closer to user 1
PagedUser(id) ==
  [ProfiledUser(id) EXCEPT
     !.location = IF id = PageRequester THEN LocationOf(PageRequester)
                  ELSE LocationOf(PageRequester) + (NumPageUsers + 1 - id) * 7 * PerKm]

\* every set of the other users may lack a location
PageTables ==
  {[i \in PageUsers |-> IF i \in S THEN UserWithoutLocation(i) ELSE PagedUser(i)] :
     S \in SUBSET (PageUsers \ {PageRequester})}

InitPage ==
  /\ swipes = [p \in Pairs |-> <<>>]
  /\ matches = <<>>
  /\ messages = <<>>
  /\ notifications = <<>>
  /\ last = NoFeed
  /\ calls = [c \in 1..NumCalls |-> IdleCall]
  /\ users \in PageTables
  /\ now = Today
  /\ feed = NoFeed
  /\ subscriptions = <<>>

\* getDiscoveryFeed({limit, offset}); last keeps the page of the call before
getDiscoveryFeed(limit, offset) ==
  /\ last' = feed
  /\ feed' = FeedResult(users, swipes, PageRequester, limit, offset, now)
  /\ UNCHANGED <<swipes, matches, messages, notifications, calls, users, now, subscriptions>>

NextPage == \E limit \in 1..MaxLimit, offset \in 0..MaxOffset : getDiscoveryFeed(limit, offset)

SpecPage == InitPage /\ [][NextPage]_vars

\* ---- a conversation: sendMessage, the clock and getConversationMessages ----
\* the tables after the recordSwipe calls of a list, made on empty tables
RECURSIVE afterSwipes(_)
afterSwipes(callList) ==
  IF callList = <<>> THEN [swipes |-> [p \in Pairs |-> <<>>], matches |-> <<>>]
  ELSE LET tables == afterSwipes(SubSeq(callList, 1, Len(callList) - 1))
           c == callList[Len(callList)]
           r == recordSwipeHandler(tables.swipes, tables.matches, c[1], c[2], c[3])
       IN  [swipes |-> r.swipes, matches |-> r.matches]

\* a likes b, then b likes a
MutualLike(a, b) == <<<<a, b, "like">>, <<b, a, "like">>>>

\* users 1 and 2 have matched
InitChat ==
  /\ swipes = afterSwipes(MutualLike(1, 2)).swipes
  /\ matches = afterSwipes(MutualLike(1, 2)).matches
  /\ messages = <<>>
  /\ notifications = <<>>
  /\ last = [op |-> "none"]
  /\ calls = [c \in 1..NumCalls |-> IdleCall]
  /\ users = <<>>
  /\ now = Today
  /\ feed = NoFeed
  /\ subscriptions = <<>>

\* time passes between two calls
tick ==
  /\ now < Today + MaxTicks
  /\ now' = now + 1
  /\ UNCHANGED <<swipes, matches, messages, notifications, last, calls, users, feed,
                 subscriptions>>

\* sendMessage, in a conversation of up to MaxConversation messages
sendChatMessage(match_id, sender_id) ==
  LET r == sendMessageHandler(matches, messages, notifications, match_id, sender_id)
  IN  /\ Len(r.messages) <= MaxConversation
      /\ messages' = r.messages
      /\ notifications' = r.notifications
      /\ last' = [op |-> "sendMessage", match_id |-> match_id, sender_id |-> sender_id,
                  ret |-> r.ret]
      /\ UNCHANGED <<swipes, matches, calls, users, now, feed, subscriptions>>

ChatLimits == 1..MaxConversation
ChatBefore == {Undefined, 0} \cup (Today..(Today + MaxTicks + 1))

NextChat ==
  \/ tick
  \/ \E m \in 1..Len(matches), u \in Users : sendChatMessage(m, u)
  \/ \E m \in 1..Len(matches), u \in Users, l \in ChatLimits, b \in ChatBefore :
       getConversationMessages(m, u, l, b)

SpecChat == InitChat /\ [][NextChat]_vars

\* ---- conversations: sendMessage, unmatchUsers and the read flags ----
\* the swipe histories the conversations start from: user 1 has matched with
\* users 2 and 3, or user 1 has liked its own profile and matched with user 2
MarkHistories ==
  {MutualLike(1, 2) \o MutualLike(1, 3), <<<<1, 1, "like">>>> \o MutualLike(1, 2)}

InitMark ==
  /\ \E h \in MarkHistories :
       /\ swipes = afterSwipes(h).swipes
       /\ matches = afterSwipes(h).matches
  /\ messages = <<>>
  /\ notifications = <<>>
  /\ last = [op |-> "none"]
  /\ calls = [c \in 1..NumCalls |-> IdleCall]
  /\ users = <<>>
  /\ now = Today
  /\ feed = NoFeed
  /\ subscriptions = <<>>

\* unmatchUsers({match_id}) sent by the client of user caller; the handler
\* does not read the caller's identity
unmatchUsersAs(caller, match_id) ==
  /\ HasMatch(matches, match_id)
  /\ matches' = unmatchUsersHandler(matches, match_id)
  /\ last' = [op |-> "unmatchUsers", caller |-> caller, match_id |-> match_id]
  /\ UNCHANGED <<swipes, messages, notifications, calls, users, now, feed, subscriptions>>

\* markMessageAsRead({message_id}) sent by the client of user caller; the
\* handler does not read the caller's identity
markMessageAsRead(caller, message_id) ==
  /\ message_id \in 1..Len(messages)
  /\ messages' = markMessageAsReadHandler(messages, message_id)
  /\ last' = [op |-> "markMessageAsRead", caller |-> caller, message_id |-> message_id,
              match_id |-> messages[message_id].match_id]
  /\ UNCHANGED <<swipes, matches, notifications, calls, users, now, feed, subscriptions>>

\* markConversationAsRead({match_id, user_id})
markConversationAsRead(match_id, user_id) ==
  /\ messages' = markConversationAsReadHandler(matches, messages, match_id, user_id)
  /\ last' = [op |-> "markConversationAsRead", caller |-> user_id, match_id |-> match_id]
  /\ UNCHANGED <<swipes, matches, notifications, calls, users, now, feed, subscriptions>>

NextMark ==
  \/ \E m \in 1..Len(matches), u \in Users : sendChatMessage(m, u)
  \/ \E m \in 1..Len(matches), u \in Users : unmatchUsersAs(u, m)
  \/ \E i \in 1..Len(messages), u \in Users : markMessageAsRead(u, i)
  \/ \E m \in 1..(Len(matches) + 1), u \in Users : markConversationAsRead(m, u)

SpecMark == InitMark /\ [][NextMark]_vars

\* ---- the matches table of the SQL schema (drizzle/schema.ts) ----
\* uniqueIndex('idx_matches_unique').on(table.user1Id, table.user2Id): a row
\* with the same user1_id and the same user2_id exists
uniqueMatchViolated(ms, user1Id, user2Id) ==
  \E i \in 1..Len(ms) : ms[i].user1_id = user1Id /\ ms[i].user2_id = user2Id

\* INSERT INTO matches (user1_id, user2_id, matched_at) VALUES ($1, $2, NOW())
insertMatchRow(ms, user1Id, user2Id) ==
  IF uniqueMatchViolated(ms, user1Id, user2Id)
    THEN [matches |-> ms, status |-> "UniqueViolation"]
    ELSE [matches |-> Append(ms, [user1_id |-> user1Id, user2_id |-> user2Id,
                                  is_active |-> TRUE]),
          status |-> "ok"]

insertMatchSql(user1Id, user2Id) ==
  LET r == insertMatchRow(matches, user1Id, user2Id)
  IN  /\ Len(r.matches) <= MaxMatchRows
      /\ matches' = r.matches
      /\ last' = [op |-> "insertMatch", user1_id |-> user1Id, user2_id |-> user2Id,
                  status |-> r.status]
      /\ UNCHANGED <<swipes, messages, notifications, calls, users, now, feed,
                     subscriptions>>

NextSql == \E a \in Users, b \in Users : insertMatchSql(a, b)

SpecSql == Init /\ [][NextSql]_vars

\* ---- useDiscoveryFeed: the feed loaded page by page while the user swipes ----
HookLimits == {1, 2}
PagePairs == PageUsers \X PageUsers

\* the state of the hook: useState(0), useState(true) and, for the record,
\* the users every result so far has shown
HookState(limit, offset, hasMore, seen) ==
  [op |-> "useDiscoveryFeed", limit |-> limit, offset |-> offset, hasMore |-> hasMore,
   seen |-> seen]

\* the discovery tab is mounted; the first result has not arrived (feed is
\* undefined)
InitHook ==
  /\ swipes = [p \in PagePairs |-> <<>>]
  /\ matches = <<>>
  /\ messages = <<>>
  /\ notifications = <<>>
  /\ \E limit \in HookLimits : last = HookState(limit, 0, TRUE, {})
  /\ calls = [c \in 1..NumCalls |-> IdleCall]
  /\ users \in PageTables
  /\ now = Today
  /\ feed = NoFeed
  /\ subscriptions = <<>>

\* the result the server holds for the hook's subscription
CurrentFeed == FeedResult(users, swipes, PageRequester, last.limit, last.offset, now)

\* the server's result reaches the client; useEffect clears hasMore on a
\* short page
deliverFeed ==
  /\ feed # CurrentFeed
  /\ feed' = CurrentFeed
  /\ last' = HookState(last.limit, last.offset,
                       IF Len(CurrentFeed.ret.page) < last.limit THEN FALSE
                       ELSE last.hasMore,
                       last.seen \cup {CurrentFeed.ret.page[i].user_id :
                                         i \in 1..Len(CurrentFeed.ret.page)})
  /\ UNCHANGED <<swipes, matches, messages, notifications, calls, users, now,
                 subscriptions>>

\* the user likes or passes a candidate of the page on screen: recordSwipe;
\* the page on screen stays until the next result arrives
swipeShown(swiped_id, action) ==
  LET r == recordSwipeHandler(swipes, matches, PageRequester, swiped_id, action)
  IN  /\ feed # NoFeed
      /\ \E i \in 1..Len(feed.ret.page) : feed.ret.page[i].user_id = swiped_id
      /\ SwipeCount(r.swipes) <= MaxSwipes
      /\ swipes' = r.swipes
      /\ matches' = r.matches
      /\ UNCHANGED <<messages, notifications, last, calls, users, now, feed,
                     subscriptions>>

\* loadMore(): setOffset(prev => prev + limit); useQuery is undefined until
\* the result for the new offset arrives
loadMore ==
  /\ feed # NoFeed
  /\ last.hasMore
  /\ Len(feed.ret.page) = last.limit
  /\ last' = HookState(last.limit, last.offset + last.limit, last.hasMore, last.seen)
  /\ feed' = NoFeed
  /\ UNCHANGED <<swipes, matches, messages, notifications, calls, users, now,
                 subscriptions>>

NextHook ==
  \/ deliverFeed
  \/ \E c \in PageUsers, x \in SwipeActions : swipeShown(c, x)
  \/ loadMore

SpecHook == InitHook /\ [][NextHook]_vars

\* ---- createUser, verifyUser: the users table by phone number ----
NumPhones == 3
Phones == 1..NumPhones

\* db.query("users").withIndex("by_phone", q => q.eq("phone_number", phone_number))
by_phone(us, phone_number) == {i \in 1..Len(us) : us[i].phone_number = phone_number}

\* db.insert("users", { phone_number, is_verified: false, ... })
NewUser(us, phone_number) ==
  [_id |-> Len(us) + 1, phone_number |-> phone_number, is_verified |-> FALSE]

\* createUser without the lookup of the existing user
createUserHandler_NoLookup(us, phone_number) ==
  [users |-> Append(us, NewUser(us, phone_number)),
   ret |-> [status |-> "ok", user_id |-> Len(us) + 1, existed |-> FALSE]]

\* createUser: .unique() throws on two rows, gives the row or null otherwise
createUserHandler(us, phone_number) ==
  LET found == by_phone(us, phone_number)
  IN  IF Cardinality(found) > 1
      THEN [users |-> us, ret |-> [status |-> "error", user_id |-> Null, existed |-> FALSE]]
      ELSE IF found # {}
      THEN [users |-> us,
            ret |-> [status |-> "ok", user_id |-> us[CHOOSE i \in found : TRUE]._id,
                     existed |-> TRUE]]
      ELSE [users |-> Append(us, NewUser(us, phone_number)),
            ret |-> [status |-> "ok", user_id |-> Len(us) + 1, existed |-> FALSE]]

\* verifyUser: db.patch(user_id, { is_verified: true, ... })
verifyUserHandler(us, user_id) == [us EXCEPT ![user_id].is_verified = TRUE]

createUser(phone_number) ==
  LET r == createUserHandler(users, phone_number)
  IN  /\ users' = r.users
      /\ last' = [op |-> "createUser", phone_number |-> phone_number, ret |-> r.ret]
      /\ UNCHANGED <<swipes, matches, messages, notifications, calls, now, feed,
                     subscriptions>>

verifyUser(user_id) ==
  /\ user_id \in 1..Len(users)
  /\ users' = verifyUserHandler(users, user_id)
  /\ last' = [op |-> "verifyUser", user_id |-> user_id]
  /\ UNCHANGED <<swipes, matches, messages, notifications, calls, now, feed,
                 subscriptions>>

NextAuth ==
  \/ \E phone_number \in Phones : createUser(phone_number)
  \/ \E user_id \in 1..NumPhones : verifyUser(user_id)

SpecAuth == Init /\ [][NextAuth]_vars

\* ---- createSubscription, cancelSubscription, expireSubscription ----
MaxSubscriptions == 3
PlanTypes == {"premium_monthly"}
Durations == {30}

\* .withIndex("by_user", ...).filter(status = "active").collect()
existingSubs(subs, user_id) ==
  {i \in 1..Len(subs) : subs[i].user_id = user_id /\ subs[i].status = "active"}

\* db.insert("subscriptions", { user_id, plan_type, status: "active", ... })
NewSubscription(subs, user_id, plan_type, duration_days, t) ==
  [_id |-> Len(subs) + 1, user_id |-> user_id, plan_type |-> plan_type,
   status |-> "active", started_at |-> t, expires_at |-> t + duration_days]

\* createSubscription without the loop over the existing subscriptions
createSubscriptionHandler_KeepExisting(subs, user_id, plan_type, duration_days, t) ==
  [subscriptions |-> Append(subs, NewSubscription(subs, user_id, plan_type, duration_days, t)),
   ret |-> Len(subs) + 1]

\* createSubscription: cancel the user's active subscriptions, insert one
createSubscriptionHandler(subs, user_id, plan_type, duration_days, t) ==
  LET patched == [i \in 1..Len(subs) |->
                    IF i \in existingSubs(subs, user_id)
                    THEN [subs[i] EXCEPT !.status = "cancelled"]
                    ELSE subs[i]]
  IN  [subscriptions |-> Append(patched,
                                NewSubscription(subs, user_id, plan_type, duration_days, t)),
       ret |-> Len(subs) + 1]

\* cancelSubscription: db.patch(subscription_id, { status: "cancelled" })
cancelSubscriptionHandler(subs, subscription_id) ==
  [subs EXCEPT ![subscription_id].status = "cancelled"]

\* expireSubscription: db.patch(subscription_id, { status: "expired" })
expireSubscriptionHandler(subs, subscription_id) ==
  [subs EXCEPT ![subscription_id].status = "expired"]

createSubscription(user_id, plan_type, duration_days) ==
  LET r == createSubscriptionHandler(subscriptions, user_id, plan_type, duration_days, now)
  IN  /\ Len(subscriptions) < MaxSubscriptions
      /\ subscriptions' = r.subscriptions
      /\ last' = [op |-> "createSubscription", user_id |-> user_id,
                  existingSubs |-> existingSubs(subscriptions, user_id), ret |-> r.ret]
      /\ UNCHANGED <<swipes, matches, messages, notifications, calls, users, now, feed>>

cancelSubscription(subscription_id) ==
  /\ subscription_id \in 1..Len(subscriptions)
  /\ subscriptions' = cancelSubscriptionHandler(subscriptions, subscription_id)
  /\ last' = [op |-> "cancelSubscription", subscription_id |-> subscription_id]
  /\ UNCHANGED <<swipes, matches, messages, notifications, calls, users, now, feed>>

expireSubscription(subscription_id) ==
  /\ subscription_id \in 1..Len(subscriptions)
  /\ subscriptions' = expireSubscriptionHandler(subscriptions, subscription_id)
  /\ last' = [op |-> "expireSubscription", subscription_id |-> subscription_id]
  /\ UNCHANGED <<swipes, matches, messages, notifications, calls, users, now, feed>>

NextSub ==
  \/ \E user_id \in Users, plan_type \in PlanTypes, duration_days \in Durations :
       createSubscription(user_id, plan_type, duration_days)
  \/ \E subscription_id \in 1..MaxSubscriptions : cancelSubscription(subscription_id)
  \/ \E subscription_id \in 1..MaxSubscriptions : expireSubscription(subscription_id)

SpecSub == Init /\ [][NextSub]_vars

\* ---- recordSwipe calls in flight, one database operation per step ----
CallDone(c, ret) == calls' = [calls EXCEPT ![c].pc = "done", ![c].ret = ret]
CallGoto(c, pc) == calls' = [calls EXCEPT ![c].pc = pc]

\* a client starts recordSwipe(swiper_id, swiped_id, action)
Call(c, swiper_id, swiped_id, action) ==
  /\ calls[c].pc = "idle"
  /\ calls' = [calls EXCEPT ![c] =
                 [pc |-> "check", swiper_id |-> swiper_id, swiped_id |-> swiped_id,
                  action |-> action, swipe_id |-> <<>>, ret |-> SwipeThrow("running")]]
  /\ UNCHANGED <<swipes, matches, messages, notifications, last, users, now, feed, subscriptions>>

\* await db.query("swipes")...unique(); if (existingSwipe) throw
CheckExisting(c) ==
  /\ calls[c].pc = "check"
  /\ LET existingSwipe == existingSwipeQuery(swipes, calls[c].swiper_id, calls[c].swiped_id)
     IN  IF UniqueStatus(existingSwipe) # "ok" THEN CallDone(c, SwipeThrow("NotUnique"))
         ELSE IF Len(existingSwipe) > 0 THEN CallDone(c, SwipeThrow("Conflict"))
         ELSE CallGoto(c, "insert")
  /\ UNCHANGED <<swipes, matches, messages, notifications, last, users, now, feed, subscriptions>>

\* await db.insert("swipes", ...); a pass returns here
InsertSwipe(c) ==
  /\ calls[c].pc = "insert"
  /\ SwipeCount(swipes) < MaxSwipes
  /\ swipes' = insertSwipe(swipes, calls[c].swiper_id, calls[c].swiped_id, calls[c].action)
  /\ LET swipeId == newSwipeId(swipes, calls[c].swiper_id, calls[c].swiped_id)
     IN  IF calls[c].action = "like"
           THEN calls' = [calls EXCEPT ![c].pc = "lookup", ![c].swipe_id = swipeId]
           ELSE calls' = [calls EXCEPT ![c].pc = "done", ![c].swipe_id = swipeId,
                                       ![c].ret = SwipeRet("ok", swipeId, FALSE, Null)]
  /\ UNCHANGED <<matches, messages, notifications, last, users, now, feed, subscriptions>>

\* await db.query("swipes")...filter(action = "like").unique()
LookupReverse(c) ==
  /\ calls[c].pc = "lookup"
  /\ LET reverseSwipe == reverseSwipeQuery(swipes, calls[c].swiper_id, calls[c].swiped_id)
     IN  IF UniqueStatus(reverseSwipe) # "ok" THEN CallDone(c, SwipeThrow("NotUnique"))
         ELSE IF Len(reverseSwipe) > 0 THEN CallGoto(c, "match")
         ELSE CallDone(c, SwipeRet("ok", calls[c].swipe_id, FALSE, Null))
  /\ UNCHANGED <<swipes, matches, messages, notifications, last, users, now, feed, subscriptions>>

\* await db.insert("matches", ...); return
InsertMatch(c) ==
  /\ calls[c].pc = "match"
  /\ matches' = insertMatch(matches, calls[c].swiper_id, calls[c].swiped_id)
  /\ CallDone(c, SwipeRet("ok", calls[c].swipe_id, TRUE, Len(matches) + 1))
  /\ UNCHANGED <<swipes, messages, notifications, last, users, now, feed, subscriptions>>

NextConc ==
  \/ \E c \in 1..NumCalls, a \in Users, b \in Users, x \in SwipeActions : Call(c, a, b, x)
  \/ \E c \in 1..NumCalls : CheckExisting(c)
  \/ \E c \in 1..NumCalls : InsertSwipe(c)
  \/ \E c \in 1..NumCalls : LookupReverse(c)
  \/ \E c \in 1..NumCalls : InsertMatch(c)

SpecConc == Init /\ [][NextConc]_vars

\* ---- properties ----
NoSwipe(sw, a, b) == Len(by_pair(sw, a, b)) = 0
HasLike(sw, a, b) == \E i \in 1..Len(by_pair(sw, a, b)) : by_pair(sw, a, b)[i] = "like"
MessagesOf(msgs, m) == {i \in 1..Len(msgs) : msgs[i].match_id = m}
IsRecordSwipe(l) == l.op = "recordSwipe"
IsSendMessage(l) == l.op = "sendMessage"

\* C1: for distinct users a and b with no swipe a->b yet, a recordSwipe(a,b,like)
\* call returns is_match=false and leaves the pair without a Match when b has
\* not swiped on a, and returns is_match=true and leaves exactly one Match of
\* the pair when b's like on a is already recorded: of the two mutual likes,
\* in either order, the first returns false and the second true.
C1_SecondLikeMatches ==
  [][\A a \in Users, b \in Users :
       ( /\ a # b
         /\ IsRecordSwipe(last')
         /\ last'.swiper_id = a /\ last'.swiped_id = b /\ last'.action = "like"
         /\ NoSwipe(swipes, a, b) )
       => /\ last'.ret.status = "ok"
          /\ NoSwipe(swipes, b, a) =>
               (~last'.ret.is_match /\ MatchesOfPair(matches', a, b) = {})
          /\ HasLike(swipes, b, a) =>
               (last'.ret.is_match /\ Cardinality(MatchesOfPair(matches', a, b)) = 1)
    ]_vars

C1_Witness ==
  /\ IsRecordSwipe(last)
  /\ last.swiper_id # last.swiped_id
  /\ last.ret.is_match
  /\ HasLike(swipes, last.swiper_id, last.swiped_id)
  /\ HasLike(swipes, last.swiped_id, last.swiper_id)
  /\ Cardinality(MatchesOfPair(matches, last.swiper_id, last.swiped_id)) = 1

\* C2: once two concurrent calls recordSwipe(a,b,like) and recordSwipe(b,a,like)
\* of distinct users have both finished, exactly one Match of the pair {a,b}
\* exists.
C2_ExactlyOneMatchConcurrent ==
  \A c \in 1..NumCalls, d \in 1..NumCalls :
    ( /\ c # d
      /\ calls[c].pc = "done" /\ calls[d].pc = "done"
      /\ calls[c].action = "like" /\ calls[d].action = "like"
      /\ calls[c].swiper_id # calls[c].swiped_id
      /\ calls[d].swiper_id = calls[c].swiped_id
      /\ calls[d].swiped_id = calls[c].swiper_id )
    => Cardinality(MatchesOfPair(matches, calls[c].swiper_id, calls[c].swiped_id)) = 1

\* C3: there is at most one Match per unordered pair of users.
C3_OneMatchPerPair ==
  \A a \in Users, b \in Users : Cardinality(MatchesOfPair(matches, a, b)) <= 1

C3_Witness ==
  /\ last.op = "unmatchUsers"
  /\ matches[last.match_id].user1_id # matches[last.match_id].user2_id
  /\ Cardinality(MatchesOfPair(matches, matches[last.match_id].user1_id,
                               matches[last.match_id].user2_id)) = 1

\* C4: the two participants of every Match are different users.
C4_DistinctParticipants ==
  \A i \in 1..Len(matches) : matches[i].user1_id # matches[i].user2_id

\* C5: every Match has a like Swipe in both directions between its two
\* participants, and a recordSwipe call with action pass leaves the matches
\* table as it was.
C5MutualLikes(sw, ms) ==
  \A i \in 1..Len(ms) :
    /\ HasLike(sw, ms[i].user1_id, ms[i].user2_id)
    /\ HasLike(sw, ms[i].user2_id, ms[i].user1_id)

C5_MatchOnlyOnMutualLike ==
  [][ /\ C5MutualLikes(swipes', matches')
      /\ (IsRecordSwipe(last') /\ last'.action = "pass") => matches' = matches
    ]_vars

C5_Witness ==
  /\ IsRecordSwipe(last)
  /\ last.action = "pass"
  /\ last.ret.status = "ok"
  /\ HasLike(swipes, last.swiped_id, last.swiper_id)
  /\ matches = <<>>

\* C6: a recordSwipe call for an ordered pair that already has a Swipe fails
\* with Conflict, whatever its action, and changes no table.
C6_DuplicateSwipeConflicts ==
  [][ (IsRecordSwipe(last') /\ ~NoSwipe(swipes, last'.swiper_id, last'.swiped_id))
      => /\ last'.ret.status = "Conflict"
         /\ UNCHANGED <<swipes, matches, messages, notifications, subscriptions>>
    ]_vars

C6_Witness ==
  /\ IsRecordSwipe(last)
  /\ last.ret.status = "Conflict"
  /\ by_pair(swipes, last.swiper_id, last.swiped_id) # <<last.action>>

\* C7: there is at most one Swipe row per ordered (swiper, swiped) pair, also
\* when the calls' steps interleave.
C7_OneSwipePerOrderedPair ==
  \A p \in Pairs : Len(swipes[p]) <= 1

\* C8: a recordSwipe call that returns is_match=true returns the id of a Match
\* that the call created, that is active and whose participants are the swiper
\* and the swiped user; a call that returns is_match=false returns match_id
\* null and leaves the matches table as it was.
C8_MatchIdOfNewMatch ==
  [][ IsRecordSwipe(last') =>
        IF last'.ret.is_match
          THEN /\ ~HasMatch(matches, last'.ret.match_id)
               /\ HasMatch(matches', last'.ret.match_id)
               /\ Len(matches') = Len(matches) + 1
               /\ SubSeq(matches', 1, Len(matches)) = matches
               /\ matches'[last'.ret.match_id].is_active
               /\ {matches'[last'.ret.match_id].user1_id,
                   matches'[last'.ret.match_id].user2_id}
                    = {last'.swiper_id, last'.swiped_id}
          ELSE /\ last'.ret.match_id = Null
               /\ matches' = matches
    ]_vars

C8_Witness ==
  /\ IsRecordSwipe(last)
  /\ last.swiper_id # last.swiped_id
  /\ last.ret.is_match
  /\ HasMatch(matches, last.ret.match_id)
  /\ matches[last.ret.match_id].is_active

\* C9 as stated: every sendMessage into a Match whose is_active is false fails
\* with InactiveMatch.  (sendMessage leaves matches alone, so the Match is
\* inactive before the call exactly when it is inactive after it.)
C9_InactiveAlwaysInactiveMatch ==
  ( /\ IsSendMessage(last)
    /\ HasMatch(matches, last.match_id)
    /\ ~matches[last.match_id].is_active )
  => last.ret.status = "InactiveMatch"

\* C9 amended: a sendMessage into a Match whose is_active is false fails and
\* stores nothing, with InactiveMatch when the sender is one of the two
\* participants and with Unauthorized otherwise; an inactive Match stays
\* inactive and its set of Messages never changes.
C9_InactiveMatchRejectsSend ==
  [][ /\ ( /\ IsSendMessage(last')
           /\ HasMatch(matches, last'.match_id)
           /\ ~matches[last'.match_id].is_active )
         => /\ UNCHANGED <<messages, notifications, subscriptions>>
            /\ last'.ret.status =
                 IF isParticipant(matches[last'.match_id], last'.sender_id)
                   THEN "InactiveMatch" ELSE "Unauthorized"
      /\ \A m \in 1..Len(matches) :
           ~matches[m].is_active
           => /\ HasMatch(matches', m) /\ ~matches'[m].is_active
              /\ MessagesOf(messages', m) = MessagesOf(messages, m)
    ]_vars

C9_Witness ==
  /\ IsSendMessage(last)
  /\ last.ret.status = "InactiveMatch"
  /\ HasMatch(matches, last.match_id)
  /\ ~matches[last.match_id].is_active
  /\ matches[last.match_id].user1_id # matches[last.match_id].user2_id
  /\ isParticipant(matches[last.match_id], last.sender_id)

\* C10: a sendMessage whose sender is neither user1 nor user2 of the match
\* fails with Unauthorized and adds neither a message nor a notification, and
\* the sender of every stored Message is a participant of the Message's Match.
C10SendersAreParticipants(ms, msgs) ==
  \A i \in 1..Len(msgs) :
    /\ HasMatch(ms, msgs[i].match_id)
    /\ isParticipant(ms[msgs[i].match_id], msgs[i].sender_id)

C10_OnlyParticipantsSend ==
  [][ /\ ( /\ IsSendMessage(last')
           /\ HasMatch(matches, last'.match_id)
           /\ ~isParticipant(matches[last'.match_id], last'.sender_id) )
         => /\ last'.ret.status = "Unauthorized"
            /\ UNCHANGED <<messages, notifications, subscriptions>>
      /\ C10SendersAreParticipants(matches', messages')
    ]_vars

C10_Witness ==
  /\ IsSendMessage(last)
  /\ last.ret.status = "Unauthorized"
  /\ HasMatch(matches, last.match_id)
  /\ matches[last.match_id].is_active
  /\ matches[last.match_id].user1_id # matches[last.match_id].user2_id
  /\ ~isParticipant(matches[last.match_id], last.sender_id)


\* ---- C11 (SpecRead) ----
IsRead(l) == l.op \in {"getMatchById", "getConversationMessages"}

\* C11: getConversationMessages and getMatchById return data only when the
\* requester is one of the two participants of the match; for any other
\* requester of an existing match they fail with Unauthorized and return no
\* message and no match record.
C11_OnlyParticipantsRead ==
  IsRead(last) =>
    /\ last.ret.rows # <<>> =>
         /\ HasMatch(matches, last.match_id)
         /\ last.user_id \in {matches[last.match_id].user1_id,
                              matches[last.match_id].user2_id}
    /\ (/\ HasMatch(matches, last.match_id)
        /\ last.user_id \notin {matches[last.match_id].user1_id,
                                matches[last.match_id].user2_id})
         => last.ret = QueryRet("Unauthorized", <<>>)

\* a user outside the match asks for a conversation that holds a message
C11_Witness ==
  /\ last.op = "getConversationMessages"
  /\ HasMatch(matches, last.match_id)
  /\ last.user_id \in Users
  /\ last.user_id \notin {matches[last.match_id].user1_id, matches[last.match_id].user2_id}
  /\ MessagesOf(messages, last.match_id) # {}
  /\ last.ret.status = "Unauthorized"


\* ---- C12 (SpecFeed) ----
FeedIds(f) == {f.ret.page[i].user_id : i \in 1..Len(f.ret.page)}
IsFeed(f) == f.op = "getDiscoveryFeed"

\* C12, first half: the feed of R never contains R itself nor any user C for
\* whom a swipe (R, C) exists, like or pass.
C12_NoSelfNoSwiped ==
  IsFeed(feed) =>
    /\ feed.user_id \notin FeedIds(feed)
    /\ \A c \in Users : by_pair(swipes, feed.user_id, c) # <<>> => c \notin FeedIds(feed)

\* C12, second half: a swipe (C, R) recorded by C does not remove C from the
\* feed of R.
C12_SwipedByStays ==
  [][\A c \in Users :
       (/\ IsFeed(feed)
        /\ c \in FeedIds(feed)
        /\ c # feed.user_id
        /\ by_pair(swipes', c, feed.user_id) # by_pair(swipes, c, feed.user_id))
         => c \in FeedIds(feed')]_vars

\* C12: both halves
C12_FeedExcludesOwnSwipesOnly == []C12_NoSelfNoSwiped /\ C12_SwipedByStays

\* R has swiped on one user and been swiped on by another, who is in R's feed
C12_Witness ==
  /\ IsFeed(feed)
  /\ \E c \in Users, d \in Users :
       /\ by_pair(swipes, feed.user_id, c) # <<>>
       /\ by_pair(swipes, d, feed.user_id) # <<>>
       /\ d # feed.user_id
       /\ d \in FeedIds(feed)
       /\ c \notin FeedIds(feed)


\* ---- C13 - C16, C18 (SpecFilter) ----
RowOf(id) == currentUserQuery(users, id)[1]
Requester == RowOf(feed.user_id)
AgeMinOf(user) == OrDefault(user.age_min, DefaultAgeMin)
AgeMaxOf(user) == OrDefault(user.age_max, DefaultAgeMax)
MaxDistanceOf(user) == OrDefault(user.max_distance, DefaultMaxDistance) * PerKm
ShowMeOf(user) == OrDefaultString(user.show_me, "everyone")
DistanceTo(id) == calculateDistance(Requester.location, RowOf(id).location)
FeedPage == feed.ret.page
AnsweredFeed == IsFeed(feed) /\ hasCompleteProfile(Requester)

\* the other users that have a birth date and a location
Located == {c \in Users \ {feed.user_id} :
              RowOf(c).location # Undefined /\ RowOf(c).birth_date # Undefined}
PassesAgeRule(c) ==
  inAgeWindow(RowOf(c).birth_date, now, AgeMinOf(Requester), AgeMaxOf(Requester))
PassesDistanceRule(c) == withinDistance(DistanceTo(c), MaxDistanceOf(Requester))
PassesPreferenceRule(c) == passesShowPreference(ShowMeOf(Requester), RowOf(c).gender)
NotSwiped(c) == by_pair(swipes, feed.user_id, c) = <<>>

\* C13: no candidate whose calendar age is below R.age_min or above R.age_max
\* appears in getDiscoveryFeed(R).
C13_AgeWithinRange ==
  IsFeed(feed) =>
    \A i \in 1..Len(FeedPage) :
      /\ FeedPage[i].age >= AgeMinOf(Requester)
      /\ FeedPage[i].age <= AgeMaxOf(Requester)

\* C14: a candidate whose age equals R.age_min or R.age_max and who passes
\* the distance, preference and exclusion rules appears in getDiscoveryFeed(R).
C14_AgeBoundsInclusive ==
  AnsweredFeed =>
    \A c \in Located :
      (/\ calculateAge(RowOf(c).birth_date, now) \in {AgeMinOf(Requester), AgeMaxOf(Requester)}
       /\ PassesDistanceRule(c)
       /\ PassesPreferenceRule(c)
       /\ NotSwiped(c))
        => c \in FeedIds(feed)


\* C15: every candidate in getDiscoveryFeed(R) is at a distance of at most
\* R.max_distance, and the distance rule excludes nobody at a distance of at
\* most R.max_distance, the candidate at exactly R.max_distance included.
C15_DistanceWithinMax ==
  AnsweredFeed =>
    /\ \A c \in FeedIds(feed) : DistanceTo(c) <= MaxDistanceOf(Requester)
    /\ \A c \in Located :
         (/\ DistanceTo(c) <= MaxDistanceOf(Requester)
          /\ PassesAgeRule(c)
          /\ PassesPreferenceRule(c)
          /\ NotSwiped(c))
           => c \in FeedIds(feed)

\* R with max_distance 50 has one user at exactly 50 km, who is in the feed,
\* and one at 60 km, who is not
C15_Witness ==
  /\ AnsweredFeed
  /\ MaxDistanceOf(Requester) = 50 * PerKm
  /\ \E c \in FeedIds(feed) : DistanceTo(c) = 50 * PerKm
  /\ \E c \in Located \ FeedIds(feed) : DistanceTo(c) = 60 * PerKm

WantsMen(show_me) == show_me \in {"men", "Men", "MEN"}
WantsWomen(show_me) == show_me \in {"women", "Women", "WOMEN"}
IsMale(gender) == gender \in {"male", "Male", "MALE"}
IsFemale(gender) == gender \in {"female", "Female", "FEMALE"}
PassesOtherRules(c) == PassesAgeRule(c) /\ PassesDistanceRule(c) /\ NotSwiped(c)

\* C16: with show_me "men" (in any letter case) the feed holds exactly the
\* otherwise eligible candidates whose gender is "male" in any letter case,
\* with "women" those whose gender is "female"; with "everyone" nobody is
\* excluded because of gender.
C16_ShowPreference ==
  AnsweredFeed =>
    /\ WantsMen(ShowMeOf(Requester)) =>
         FeedIds(feed) = {c \in Located : PassesOtherRules(c) /\ IsMale(RowOf(c).gender)}
    /\ WantsWomen(ShowMeOf(Requester)) =>
         FeedIds(feed) = {c \in Located : PassesOtherRules(c) /\ IsFemale(RowOf(c).gender)}
    /\ ShowMeOf(Requester) = "everyone" =>
         FeedIds(feed) = {c \in Located : PassesOtherRules(c)}

\* R with show_me "Men" is shown a user of gender "Male" and not a user of
\* another gender
C16_Witness ==
  /\ AnsweredFeed
  /\ ShowMeOf(Requester) = "Men"
  /\ \E c \in FeedIds(feed) : RowOf(c).gender = "Male"
  /\ \E c \in Located \ FeedIds(feed) : ~IsMale(RowOf(c).gender)

\* C18: the feed is in ascending order of distance, and candidates at equal
\* distance are in ascending order of their identifier, whatever order the
\* store yields the users in.
C18_OrderedByDistanceThenId ==
  AnsweredFeed =>
    \A i \in 1..(Len(FeedPage) - 1) :
      \/ DistanceTo(FeedPage[i].user_id) < DistanceTo(FeedPage[i + 1].user_id)
      \/ /\ DistanceTo(FeedPage[i].user_id) = DistanceTo(FeedPage[i + 1].user_id)
         /\ FeedPage[i].user_id < FeedPage[i + 1].user_id


\* ---- C17 (SpecFeed) ----
\* C17: getDiscoveryFeed for a requester without a coordinate or without a
\* birth date returns the empty list and does not fail, whatever the other
\* users and the swipes are.
C17_IncompleteProfileEmptyFeed ==
  (/\ IsFeed(feed)
   /\ (Requester.location = Undefined \/ Requester.birth_date = Undefined))
    => feed.ret = [status |-> "ok", page |-> <<>>]

\* a requester who has a coordinate but no birth date, among users with full
\* profiles of whom one has swiped
C17_Witness ==
  /\ IsFeed(feed)
  /\ Requester.location # Undefined
  /\ Requester.birth_date = Undefined
  /\ \E c \in Users \ {feed.user_id} : hasCompleteProfile(RowOf(c))
  /\ SwipeCount(swipes) > 0
  /\ feed.ret = [status |-> "ok", page |-> <<>>]


\* ---- C19, C20 (SpecPage) ----
RECURSIVE DescendingIds(_)
DescendingIds(S) ==
  IF S = {} THEN <<>>
  ELSE LET m == CHOOSE x \in S : \A y \in S : y <= x
       IN  <<m>> \o DescendingIds(S \ {m})

\* the full ordered list of eligible candidates of the requester: the other
\* users that have a location, closest first, which here is highest id first
EligibleList ==
  DescendingIds({c \in PageUsers \ {PageRequester} : RowOf(c).location # Undefined})

PageIds(f) == [i \in 1..Len(f.ret.page) |-> f.ret.page[i].user_id]
PageSize(limit, offset) ==
  IF offset >= Len(EligibleList) THEN 0
  ELSE IF offset + limit <= Len(EligibleList) THEN limit
  ELSE Len(EligibleList) - offset

\* C19: getDiscoveryFeed(R, limit, offset) returns exactly the elements at
\* positions offset to offset + limit - 1 of the full ordered list of eligible
\* candidates; an offset at or beyond the size of the list yields an empty
\* page and no error.
C19_PageIsSliceOfList ==
  IsFeed(feed) =>
    /\ feed.ret.status = "ok"
    /\ Len(feed.ret.page) = PageSize(feed.limit, feed.offset)
    /\ \A i \in 1..Len(feed.ret.page) :
         feed.ret.page[i].user_id = EligibleList[feed.offset + i]

\* a page from the middle of the list, asked for after a page whose offset is
\* the size of the list and which came back empty
C19_Witness ==
  /\ IsFeed(feed) /\ IsFeed(last)
  /\ Len(EligibleList) > 0
  /\ last.offset = Len(EligibleList) /\ last.limit > 0
  /\ last.ret = [status |-> "ok", page |-> <<>>]
  /\ feed.offset > 0 /\ feed.limit > 0
  /\ feed.offset + feed.limit < Len(EligibleList)
  /\ Len(feed.ret.page) = feed.limit

\* the call (limit 2, offset 0) followed by the call (limit 2, offset 2), with
\* five eligible users
TwoPagesOfFive ==
  /\ IsFeed(last) /\ last.limit = 2 /\ last.offset = 0
  /\ IsFeed(feed) /\ feed.limit = 2 /\ feed.offset = 2
  /\ Len(EligibleList) = 5
Disjoint(p, q) == \A i \in 1..Len(p), j \in 1..Len(q) : p[i] # q[j]
WholeFeed(limit) ==
  getDiscoveryFeedHandler(users, swipes, PageRequester, limit, 0, now).page

\* C20 as stated: the two pages are disjoint and their union, in order,
\* equals getDiscoveryFeed(R, limit=5, offset=0).
C20_TwoPagesEqualFive ==
  TwoPagesOfFive =>
    /\ Disjoint(PageIds(last), PageIds(feed))
    /\ last.ret.page \o feed.ret.page = WholeFeed(5)

\* C20: the two pages are disjoint and their union, in order, is the first
\* four of the five entries of getDiscoveryFeed(R, limit=5, offset=0).
C20_TwoPagesAreFirstFour ==
  TwoPagesOfFive =>
    /\ Disjoint(PageIds(last), PageIds(feed))
    /\ Len(WholeFeed(5)) = 5
    /\ last.ret.page \o feed.ret.page = SubSeq(WholeFeed(5), 1, 4)

C20_Witness ==
  /\ TwoPagesOfFive
  /\ Len(last.ret.page) = 2
  /\ Len(feed.ret.page) = 2


\* ---- C21, C27 (SpecChat) ----
\* C21: getConversationMessages returns messages of the match sorted by
\* sent_at ascending, and when a before timestamp T is given every returned
\* message has sent_at strictly less than T.
C21_ChronologicalAndBefore ==
  (last.op = "getConversationMessages" /\ last.ret.status = "ok") =>
    LET rows == last.ret.rows
    IN  /\ \A i \in 1..Len(rows) : messages[rows[i].message_id].match_id = last.match_id
        /\ \A i \in 1..(Len(rows) - 1) : rows[i].sent_at <= rows[i + 1].sent_at
        /\ last.before # Undefined => \A i \in 1..Len(rows) : rows[i].sent_at < last.before

\* paging backwards: the next call has before = sent_at of the oldest message
\* of the page; the pages are joined oldest first
RECURSIVE pagesBackwards(_, _, _, _)
pagesBackwards(match_id, user_id, limit, before) ==
  LET page == getConversationMessagesHandler(matches, messages, match_id, user_id,
                                             limit, before).rows
  IN  IF page = <<>> THEN <<>>
      ELSE pagesBackwards(match_id, user_id, limit, page[1].sent_at) \o page

\* C27: paging backwards through a conversation with one limit returns every
\* message of the match exactly once, also when messages share a sent_at.
C27_PagingReturnsEachOnce ==
  \A m \in 1..Len(matches), l \in ChatLimits :
    LET u == matches[m].user1_id
        paged == pagesBackwards(m, u, l, Undefined)
    IN  [i \in 1..Len(paged) |-> paged[i].message_id]
          = SelectSeq([i \in 1..Len(messages) |-> i], LAMBDA i : messages[i].match_id = m)


\* ---- C22, C23 (SpecMark) ----
ParticipantsOf(m) == {matches[m].user1_id, matches[m].user2_id}

\* C22: markConversationAsRead(match, user) changes only the read flag of
\* messages of that match sent by the other participant, and only from unread
\* to read; messages sent by the calling user, messages of other matches and
\* every other field are left unchanged.
C22_MarkConversationFrame ==
  [][last'.op = "markConversationAsRead" =>
       /\ matches' = matches
       /\ Len(messages') = Len(messages)
       /\ \A i \in 1..Len(messages) :
            messages'[i] # messages[i] =>
              /\ messages[i].match_id = last'.match_id
              /\ messages[i].sender_id # last'.caller
              /\ messages[i].sender_id \in ParticipantsOf(last'.match_id)
              /\ messages[i].is_read = FALSE
              /\ messages'[i] = [messages[i] EXCEPT !.is_read = TRUE]]_vars

\* C23: unmatchUsers, sendMessage, markMessageAsRead and markConversationAsRead
\* change a row only when the calling user is a participant of the match
\* concerned; a call by any other user leaves matches and messages unchanged.
C23_OnlyParticipantsWrite ==
  [][(/\ last'.op \in {"unmatchUsers", "markMessageAsRead", "markConversationAsRead"}
      /\ HasMatch(matches, last'.match_id)
      /\ last'.caller \notin ParticipantsOf(last'.match_id))
       => (matches' = matches /\ messages' = messages)]_vars


\* ---- C24 (SpecSql) ----
\* C24: the uniqueness constraint of the matches table rejects a second Match
\* of a pair of users whichever of the two is stored as user1: no two rows
\* hold the same two users.
C24_UnorderedPairUnique ==
  \A i \in 1..Len(matches), j \in 1..Len(matches) :
    i # j => ParticipantsOf(i) # ParticipantsOf(j)


\* ---- C25, C26 (Spec) ----
\* a pair of users with an inactive match has no active match
UnmatchedStayUnmatched ==
  \A i \in 1..Len(matches), j \in 1..Len(matches) :
    (~matches[i].is_active /\ ParticipantsOf(i) = ParticipantsOf(j)) => ~matches[j].is_active

\* no step deletes a match, changes its users or sets an inactive match back
\* to active; unmatchUsers(M) only clears the active flag of M
MatchesOnlyDeactivate ==
  [][/\ Len(matches') >= Len(matches)
     /\ \A m \in 1..Len(matches) :
          /\ matches'[m].user1_id = matches[m].user1_id
          /\ matches'[m].user2_id = matches[m].user2_id
          /\ ~matches[m].is_active => ~matches'[m].is_active
     /\ last'.op = "unmatchUsers" =>
          /\ matches' = [matches EXCEPT ![last'.match_id].is_active = FALSE]
          /\ swipes' = swipes
          /\ messages' = messages]_vars

C26_MessagesNeedMutualLike ==
  \A i \in 1..Len(messages) :
    LET X == messages[i].sender_id
        Y == recipientOf(matches[messages[i].match_id], X)
    IN  HasLike(swipes, X, Y) /\ HasLike(swipes, Y, X)

\* a message between two distinct users
C26_Witness ==
  \E i \in 1..Len(messages) :
    /\ messages[i].sender_id # recipientOf(matches[messages[i].match_id],
                                           messages[i].sender_id)
    /\ matches[messages[i].match_id].is_active


\* ---- C28 (SpecHook) ----
\* the client holds the server's current result and it is a short page:
\* there is nothing left to load
PagingDone == feed = CurrentFeed /\ Len(feed.ret.page) < last.limit

\* C28: loading the feed page by page at offsets 0, limit, 2*limit, ... with
\* swipes on returned candidates in between, every eligible candidate the
\* requester has not swiped on is returned in some page.
C28_NoCandidateSkipped ==
  PagingDone =>
    \A c \in PageUsers \ {PageRequester} :
      (RowOf(c).location # Undefined /\ by_pair(swipes, PageRequester, c) = <<>>)
        => c \in last.seen


\* ---- C29 (SpecAuth) ----
OneUserPerPhone == \A phone_number \in Phones : Cardinality(by_phone(users, phone_number)) <= 1

CreateUserStep ==
  (last'.op = "createUser" /\ last' # last) =>
    LET phone_number == last'.phone_number
        found == by_phone(users, phone_number)
    IN  IF found # {}
        THEN /\ users' = users
             /\ last'.ret.existed = TRUE
             /\ \E i \in found : last'.ret.user_id = users[i]._id
        ELSE /\ Len(users') = Len(users) + 1
             /\ SubSeq(users', 1, Len(users)) = users
             /\ users'[Len(users')].phone_number = phone_number
             /\ users'[Len(users')].is_verified = FALSE
             /\ last'.ret.existed = FALSE
             /\ last'.ret.user_id = users'[Len(users')]._id

\* C29: after any sequence of createUser calls at most one user has a given
\* phone number; for a phone number that has a user the call returns that
\* user's id with existed = true and creates nothing; for a new phone number
\* it creates exactly one user, unverified, and returns existed = false.
C29_OneUserPerPhone == []OneUserPerPhone /\ [][CreateUserStep]_vars

\* createUser was called for the phone number of a verified user among two
\* users, and answered with that user
C29_Witness ==
  /\ last.op = "createUser"
  /\ last.ret.existed = TRUE
  /\ Len(users) >= 2
  /\ \E i \in 1..Len(users) :
       /\ users[i].phone_number = last.phone_number
       /\ users[i].is_verified
       /\ last.ret.user_id = users[i]._id


\* ---- C30 (SpecSub) ----
AtMostOneActive == \A u \in Users : Cardinality(existingSubs(subscriptions, u)) <= 1

CreateSubscriptionStep ==
  (last'.op = "createSubscription" /\ Len(subscriptions') > Len(subscriptions)) =>
    /\ existingSubs(subscriptions', last'.user_id) = {last'.ret}
    /\ last'.ret \notin 1..Len(subscriptions)
    /\ \A i \in existingSubs(subscriptions, last'.user_id) :
         subscriptions'[i].status # "active"

\* C30: after any sequence of createSubscription, cancelSubscription and
\* expireSubscription calls each user has at most one active subscription;
\* right after createSubscription(u, ...) the new subscription is the only
\* active one of u and every subscription of u that was active before is no
\* longer active.
C30_OneActiveSubscription == []AtMostOneActive /\ [][CreateSubscriptionStep]_vars

\* createSubscription was called for a user who had an active subscription
C30_Witness ==
  /\ last.op = "createSubscription"
  /\ last.existingSubs # {}
  /\ \A i \in last.existingSubs : subscriptions[i].status = "cancelled"
  /\ subscriptions[last.ret].status = "active"
  /\ subscriptions[last.ret].user_id = last.user_id

============================================================================
